---- MODULE Spec2Model ----
(***************************************************************************)
(* actix-fs: asynchronous facades over std::fs.  Every facade operation    *)
(* builds a closure around one std::fs call and hands it to                *)
(* crate::blocking, which submits it to the actix_threadpool worker pool   *)
(* and maps the pool future's error.                                       *)
(*                                                                         *)
(* The state is the filesystem below a base directory, the units of work   *)
(* submitted to the pool together with the futures returned for them, and  *)
(* the flags of one OpenOptions builder.                                   *)
(***************************************************************************)
EXTENDS Integers, Sequences, FiniteSets, TLC

VARIABLES
    fs,     \* the filesystem: path -> "none" | "dir" | "file"
    jobs,   \* the submissions made so far, in submission order
    opts    \* the flags of the caller's OpenOptions builder

vars == <<fs, jobs, opts>>

\* Number of submissions explored.
MaxJobs == 2

(***************************************************************************)
(* Paths.  A path is the sequence of its components below the base         *)
(* directory (tests/dir.rs: base_dir.path().join("foo").join("bar")).      *)
(***************************************************************************)
Root == <<>>

Paths == {<<"a">>, <<"a", "b">>, <<"a", "b", "c">>, <<"d">>}

Parent(p) == SubSeq(p, 1, Len(p) - 1)

Kind(f, p) == IF p = Root THEN "dir" ELSE f[p]

IsDir(f, p) == Kind(f, p) = "dir"

Exists(f, p) == Kind(f, p) # "none"

HasEntries(f, p) == \E q \in Paths : Parent(q) = p /\ f[q] # "none"

\* A filesystem is a tree: an entry exists only inside a directory.
WellFormed(f) == \A p \in Paths : f[p] # "none" => IsDir(f, Parent(p))

AllFs == {f \in [Paths -> {"none", "dir", "file"}] : WellFormed(f)}

(***************************************************************************)
(* io::Error values and io::Result.                                        *)
(***************************************************************************)
NoErr == [kind |-> "-", msg |-> "-"]

ENOENT == [kind |-> "NotFound", msg |-> "No such file or directory (os error 2)"]

EEXIST == [kind |-> "AlreadyExists", msg |-> "File exists (os error 17)"]

ENOTDIR == [kind |-> "Other", msg |-> "Not a directory (os error 20)"]

EISDIR == [kind |-> "Other", msg |-> "Is a directory (os error 21)"]

EINVAL == [kind |-> "InvalidInput", msg |-> "Invalid argument (os error 22)"]

ENOTEMPTY == [kind |-> "Other", msg |-> "Directory not empty (os error 39)"]

OsErrors == {ENOENT, EEXIST, ENOTDIR, EISDIR, EINVAL, ENOTEMPTY}

\* lib.rs: blocking_err(), the error of a call made outside the runtime
\* (the message's back quotes around the word blocking are left out).
blocking_err ==
    [kind |-> "Other",
     msg  |-> "blocking annotated I/O must be called from the context of the Actix runtime."]

NoRes == [tag |-> "none", val |-> "-", err |-> NoErr]

Ok(v) == [tag |-> "ok", val |-> v, err |-> NoErr]

Err(e) == [tag |-> "err", val |-> "-", err |-> e]

\* What a closure returns: the filesystem it leaves and its io::Result.
Ret(f, r) == [fs |-> f, res |-> r]

(***************************************************************************)
(* The std::fs calls the closures make (unix semantics).                   *)
(***************************************************************************)
\* fs::create_dir: mkdir(2)
Mkdir(f, p) ==
    IF Exists(f, p) THEN Ret(f, Err(EEXIST))
    ELSE IF ~Exists(f, Parent(p)) THEN Ret(f, Err(ENOENT))
    ELSE IF ~IsDir(f, Parent(p)) THEN Ret(f, Err(ENOTDIR))
    ELSE Ret([f EXCEPT ![p] = "dir"], Ok("unit"))

\* fs::create_dir_all: mkdir, on NotFound the parent chain first, and an
\* already existing directory is a success.
RECURSIVE CreateDirAll(_, _)
CreateDirAll(f, p) ==
    LET first == Mkdir(f, p) IN
    IF first.res.tag = "ok" THEN first
    ELSE IF first.res.err.kind # "NotFound"
         THEN IF IsDir(f, p) THEN Ret(f, Ok("unit")) ELSE first
    ELSE LET up == CreateDirAll(f, Parent(p)) IN
         IF up.res.tag # "ok" THEN up
         ELSE LET again == Mkdir(up.fs, p) IN
              IF again.res.tag = "ok" THEN again
              ELSE IF IsDir(up.fs, p) THEN Ret(up.fs, Ok("unit"))
              ELSE again

\* fs::remove_dir: rmdir(2)
Rmdir(f, p) ==
    IF ~Exists(f, Parent(p)) THEN Ret(f, Err(ENOENT))
    ELSE IF ~IsDir(f, Parent(p)) THEN Ret(f, Err(ENOTDIR))
    ELSE IF ~Exists(f, p) THEN Ret(f, Err(ENOENT))
    ELSE IF ~IsDir(f, p) THEN Ret(f, Err(ENOTDIR))
    ELSE IF HasEntries(f, p) THEN Ret(f, Err(ENOTEMPTY))
    ELSE Ret([f EXCEPT ![p] = "none"], Ok("unit"))

\* fs::remove_file: unlink(2)
Unlink(f, p) ==
    IF ~Exists(f, Parent(p)) THEN Ret(f, Err(ENOENT))
    ELSE IF ~IsDir(f, Parent(p)) THEN Ret(f, Err(ENOTDIR))
    ELSE IF ~Exists(f, p) THEN Ret(f, Err(ENOENT))
    ELSE IF IsDir(f, p) THEN Ret(f, Err(EISDIR))
    ELSE Ret([f EXCEPT ![p] = "none"], Ok("unit"))

(***************************************************************************)
(* OpenOptions: the six flags of std::fs::OpenOptions.                     *)
(***************************************************************************)
Flags == {"read", "write", "append", "truncate", "create", "create_new"}

\* OpenOptions::new(): all options are initially false.
NewOptions == [x \in Flags |-> FALSE]

\* The setters read, write, append, truncate, create, create_new.
SetFlag(o, x, b) == [o EXCEPT ![x] = b]

\* StdFile::create: write, create and truncate.
CreateOptions ==
    SetFlag(SetFlag(SetFlag(NewOptions, "write", TRUE), "create", TRUE), "truncate", TRUE)

\* std's check of the access mode: none of read, write, append is EINVAL.
AccessOk(o) == o["read"] \/ o["write"] \/ o["append"]

\* std's check of the creation mode.
CreationOk(o) ==
    IF o["append"] THEN ~(o["truncate"] /\ ~o["create_new"])
    ELSE IF o["write"] THEN TRUE
    ELSE ~(o["truncate"] \/ o["create"] \/ o["create_new"])

\* std::fs::OpenOptions::open: open(2) with the flags o.
OsOpen(f, p, o) ==
    LET writes == o["write"] \/ o["append"]
        creat  == o["create"] \/ o["create_new"]
    IN
    IF ~AccessOk(o) \/ ~CreationOk(o) THEN Ret(f, Err(EINVAL))
    ELSE IF ~Exists(f, Parent(p)) THEN Ret(f, Err(ENOENT))
    ELSE IF ~IsDir(f, Parent(p)) THEN Ret(f, Err(ENOTDIR))
    ELSE IF ~Exists(f, p)
         THEN IF creat THEN Ret([f EXCEPT ![p] = "file"], Ok("File"))
              ELSE Ret(f, Err(ENOENT))
    ELSE IF o["create_new"] THEN Ret(f, Err(EEXIST))
    ELSE IF IsDir(f, p) /\ (writes \/ creat) THEN Ret(f, Err(EISDIR))
    ELSE Ret(f, Ok("File"))

(***************************************************************************)
(* The closures the facades build.                                         *)
(***************************************************************************)
DirOps == {"create_dir", "create_dir_all", "remove_dir"}

FileOps == {"remove_file", "open", "file_create"}

\* DirWork with create_dir's closure calling fs::remove_dir.
DirWorkCreateAsRemove(op, p, f) ==
    CASE op = "create_dir"     -> Rmdir(f, p)
      [] op = "create_dir_all" -> CreateDirAll(f, p)
      [] op = "remove_dir"     -> Rmdir(f, p)

\* DirWork with create_dir_all's closure calling fs::create_dir.
DirWorkFlatCreateAll(op, p, f) ==
    CASE op = "create_dir"     -> Mkdir(f, p)
      [] op = "create_dir_all" -> Mkdir(f, p)
      [] op = "remove_dir"     -> Rmdir(f, p)

\* DirWork with remove_dir's closure calling fs::remove_file.
DirWorkRemoveAsFile(op, p, f) ==
    CASE op = "create_dir"     -> Mkdir(f, p)
      [] op = "create_dir_all" -> CreateDirAll(f, p)
      [] op = "remove_dir"     -> Unlink(f, p)

\* dir.rs: the closures of create_dir, create_dir_all and remove_dir.
DirWork(op, p, f) ==
    CASE op = "create_dir"     -> Mkdir(f, p)
      [] op = "create_dir_all" -> CreateDirAll(f, p)
      [] op = "remove_dir"     -> Rmdir(f, p)

\* file.rs: the closures of remove_file, OpenOptions::open and File::create.
FileWork(op, p, o, f) ==
    CASE op = "remove_file" -> Unlink(f, p)
      [] op = "open"        -> OsOpen(f, p, o)
      [] op = "file_create" -> OsOpen(f, p, CreateOptions)

UnitOfWork(op, p, o, f) ==
    IF op \in DirOps THEN DirWork(op, p, f) ELSE FileWork(op, p, o, f)

(***************************************************************************)
(* The offload bridge.  blocking(f) is                                     *)
(*     actix_threadpool::run(f).map_err(|_| blocking_err())                *)
(* run(f) makes a oneshot channel, queues on the pool the job              *)
(*     if !tx.is_canceled() { let _ = tx.send(f()); }                      *)
(* and returns the future of the receiving end.  That future yields the    *)
(* value of an Ok sent, BlockingError::Error(e) for an Err(e) sent, and    *)
(* BlockingError::Canceled when the sender is gone without a send.         *)
(*                                                                         *)
(* A job's st is the worker's side: queued, running (past the is_canceled  *)
(* check), sent (f ran, the result is in the channel), discarded (f ran,   *)
(* the receiver was gone), skipped (the receiver was gone at the check),   *)
(* panicked (f unwound, the sender was dropped).  fut is the caller's      *)
(* side: pending, resolved, dropped.                                       *)
(*                                                                         *)
(* History kept per job: execs and resolves count the runs of f and the    *)
(* resolutions of the future; sub is the filesystem at the submission, pre *)
(* and post the filesystem around the closure's call; call is the builder  *)
(* the open was issued on, used the flags the closure opened with, and     *)
(* moved tells that the builder had other flags when the closure ran.      *)
(***************************************************************************)
Job(op, p, o, c, f) ==
    [op |-> op, path |-> p, opt |-> o, call |-> c, used |-> NewOptions, moved |-> FALSE,
     st |-> "queued", fut |-> "pending", res |-> NoRes, out |-> NoRes,
     execs |-> 0, resolves |-> 0, sub |-> f, pre |-> f, post |-> f]

JobIds == 1..Len(jobs)

\* lib.rs: blocking(f) up to the return of the future: the job is queued.
blocking(op, p, o, c) ==
    /\ Len(jobs) < MaxJobs
    /\ jobs' = Append(jobs, Job(op, p, o, c, fs))
    /\ UNCHANGED <<fs, opts>>

\* dir.rs: the facades; the closure owns the path.
create_dir(p) == blocking("create_dir", p, NewOptions, NewOptions)

create_dir_all(p) == blocking("create_dir_all", p, NewOptions, NewOptions)

remove_dir(p) == blocking("remove_dir", p, NewOptions, NewOptions)

\* file.rs: remove_file.
remove_file(p) == blocking("remove_file", p, NewOptions, NewOptions)

\* file.rs OpenOptions::open: let opt = self.0.clone(); the closure owns opt.
Snapshot(o) == o

\* EffectiveOpt with the closure reading the builder instead of its copy.
EffectiveOptLive(j) == opts

\* The flags the closure of job j opens with: its own copy.
EffectiveOpt(j) == jobs[j].opt

\* The worker takes job j from the queue: if !tx.is_canceled() { ... }
WorkerStart(j) ==
    /\ jobs[j].st = "queued"
    /\ jobs' = [jobs EXCEPT ![j].st =
                   IF jobs[j].fut = "dropped" THEN "skipped" ELSE "running"]
    /\ UNCHANGED <<fs, opts>>

\* WorkerFinish with a failed f() put back on the queue.
WorkerFinishRetry(j) ==
    /\ jobs[j].st = "running"
    /\ LET job == jobs[j]
           r   == UnitOfWork(job.op, job.path, EffectiveOpt(j), fs)
       IN /\ fs' = r.fs
          /\ jobs' = [jobs EXCEPT ![j] =
                 [job EXCEPT !.st = IF r.res.tag = "err" THEN "queued"
                                    ELSE IF job.fut = "dropped" THEN "discarded"
                                    ELSE "sent",
                             !.res = r.res,
                             !.execs = job.execs + 1,
                             !.used = EffectiveOpt(j),
                             !.moved = (opts # job.call),
                             !.pre = fs,
                             !.post = r.fs]]
    /\ UNCHANGED opts

\* WorkerFinish with f() left out once the receiver is gone.
WorkerFinishCancellable(j) ==
    /\ jobs[j].st = "running"
    /\ LET job == jobs[j]
           r   == IF job.fut = "dropped" THEN Ret(fs, NoRes)
                  ELSE UnitOfWork(job.op, job.path, EffectiveOpt(j), fs)
       IN /\ fs' = r.fs
          /\ jobs' = [jobs EXCEPT ![j] =
                 [job EXCEPT !.st = IF job.fut = "dropped" THEN "discarded" ELSE "sent",
                             !.res = r.res,
                             !.execs = IF job.fut = "dropped" THEN job.execs
                                       ELSE job.execs + 1,
                             !.used = EffectiveOpt(j),
                             !.moved = (opts # job.call),
                             !.pre = fs,
                             !.post = r.fs]]
    /\ UNCHANGED opts

\* The worker runs f() and sends its result: let _ = tx.send(f());
WorkerFinish(j) ==
    /\ jobs[j].st = "running"
    /\ LET job == jobs[j]
           r   == UnitOfWork(job.op, job.path, EffectiveOpt(j), fs)
       IN /\ fs' = r.fs
          /\ jobs' = [jobs EXCEPT ![j] =
                 [job EXCEPT !.st = IF job.fut = "dropped" THEN "discarded" ELSE "sent",
                             !.res = r.res,
                             !.execs = job.execs + 1,
                             !.used = EffectiveOpt(j),
                             !.moved = (opts # job.call),
                             !.pre = fs,
                             !.post = r.fs]]
    /\ UNCHANGED opts

\* f() unwinds before its std::fs call (path.as_ref() is the caller's code):
\* the sender is dropped without a send.
WorkerPanic(j) ==
    /\ jobs[j].st = "running"
    /\ jobs' = [jobs EXCEPT ![j].st = "panicked",
                            ![j].execs = jobs[j].execs + 1,
                            ![j].pre = fs,
                            ![j].post = fs]
    /\ UNCHANGED <<fs, opts>>

\* The error of the pool's future for job j.
BlockingErrorOf(job) ==
    IF job.st = "sent"
    THEN [variant |-> "Error", inner |-> job.res.err]
    ELSE [variant |-> "Canceled", inner |-> NoErr]

\* Display of BlockingError: the debug form of e, or "Thread pool is gone".
Describe(be) ==
    IF be.variant = "Canceled" THEN "Thread pool is gone" ELSE be.inner.msg

\* lib.rs: the closure of map_err, |_| blocking_err().
MapErr(be) == blocking_err

\* What the future of blocking resolves with.
Outcome(job) ==
    IF job.st = "sent" /\ job.res.tag = "ok"
    THEN Ok(job.res.val)
    ELSE Err(MapErr(BlockingErrorOf(job)))

\* The runtime polls the future of job j once the channel has settled.
Resolve(j) ==
    /\ jobs[j].fut = "pending"
    /\ jobs[j].st \in {"sent", "panicked"}
    /\ jobs' = [jobs EXCEPT ![j].fut = "resolved",
                            ![j].out = Outcome(jobs[j]),
                            ![j].resolves = jobs[j].resolves + 1]
    /\ UNCHANGED <<fs, opts>>

\* The caller drops the future of job j before it has resolved.
DropFuture(j) ==
    /\ jobs[j].fut = "pending"
    /\ jobs' = [jobs EXCEPT ![j].fut = "dropped"]
    /\ UNCHANGED <<fs, opts>>

(***************************************************************************)
(* Spec: create_dir and remove_dir called concurrently on a directory and  *)
(* its child, with futures that may be dropped and closures that may       *)
(* unwind.                                                                 *)
(***************************************************************************)
RacePaths == {<<"a">>, <<"a", "b">>}

RaceFs == {f \in AllFs : \A p \in Paths \ RacePaths : f[p] = "none"}

Init ==
    /\ fs \in RaceFs
    /\ jobs = <<>>
    /\ opts = NewOptions

Next ==
    \/ \E p \in RacePaths : create_dir(p)
    \/ \E p \in RacePaths : remove_dir(p)
    \/ \E j \in JobIds : WorkerStart(j)
    \/ \E j \in JobIds : WorkerFinish(j)
    \/ \E j \in JobIds : WorkerPanic(j)
    \/ \E j \in JobIds : Resolve(j)
    \/ \E j \in JobIds : DropFuture(j)

Spec == Init /\ [][Next]_vars

(***************************************************************************)
(* SpecSeq: the facades called as tests/dir.rs calls them, one future at   *)
(* a time run to its end (rt::run blocks on it), on any path and any       *)
(* filesystem.                                                             *)
(***************************************************************************)
Awaited == \A j \in JobIds : jobs[j].fut = "resolved"

InitSeq ==
    /\ fs \in AllFs
    /\ jobs = <<>>
    /\ opts = NewOptions

NextSeq ==
    \/ Awaited /\ \E p \in Paths : create_dir(p)
    \/ Awaited /\ \E p \in Paths : create_dir_all(p)
    \/ Awaited /\ \E p \in Paths : remove_dir(p)
    \/ Awaited /\ \E p \in Paths : remove_file(p)
    \/ \E j \in JobIds : WorkerStart(j)
    \/ \E j \in JobIds : WorkerFinish(j)
    \/ \E j \in JobIds : Resolve(j)

SpecSeq == InitSeq /\ [][NextSeq]_vars

(***************************************************************************)
(* SpecOpen: one OpenOptions builder, its setters and the opens.  An open  *)
(* is issued when no other is outstanding, and a resolved future is        *)
(* forgotten before the next; the setters run at any time.                 *)
(***************************************************************************)
read(b) == opts' = SetFlag(opts, "read", b) /\ UNCHANGED <<fs, jobs>>

write(b) == opts' = SetFlag(opts, "write", b) /\ UNCHANGED <<fs, jobs>>

append(b) == opts' = SetFlag(opts, "append", b) /\ UNCHANGED <<fs, jobs>>

truncate(b) == opts' = SetFlag(opts, "truncate", b) /\ UNCHANGED <<fs, jobs>>

create(b) == opts' = SetFlag(opts, "create", b) /\ UNCHANGED <<fs, jobs>>

create_new(b) == opts' = SetFlag(opts, "create_new", b) /\ UNCHANGED <<fs, jobs>>

\* OpenOptions::open(&self, path)
open(p) == blocking("open", p, Snapshot(opts), opts)

\* File::open(path): OpenOptions::new().read(true).open(path)
File_open(p) ==
    LET o == SetFlag(NewOptions, "read", TRUE)
    IN blocking("open", p, Snapshot(o), o)

\* File::create(path)
File_create(p) == blocking("file_create", p, CreateOptions, CreateOptions)

\* The caller lets go of a resolved future.
Forget ==
    /\ jobs # <<>>
    /\ Awaited
    /\ jobs' = <<>>
    /\ UNCHANGED <<fs, opts>>

OpenPaths == {<<"a">>, <<"a", "b">>}

InitOpen ==
    /\ fs \in RaceFs
    /\ jobs = <<>>
    /\ opts = NewOptions

NextOpen ==
    \/ \E b \in BOOLEAN : read(b)
    \/ \E b \in BOOLEAN : write(b)
    \/ \E b \in BOOLEAN : append(b)
    \/ \E b \in BOOLEAN : truncate(b)
    \/ \E b \in BOOLEAN : create(b)
    \/ \E b \in BOOLEAN : create_new(b)
    \/ jobs = <<>> /\ \E p \in OpenPaths : open(p)
    \/ jobs = <<>> /\ \E p \in OpenPaths : File_open(p)
    \/ jobs = <<>> /\ \E p \in OpenPaths : File_create(p)
    \/ jobs = <<>> /\ \E p \in OpenPaths : remove_file(p)
    \/ \E j \in JobIds : WorkerStart(j)
    \/ \E j \in JobIds : WorkerFinish(j)
    \/ \E j \in JobIds : Resolve(j)
    \/ Forget

SpecOpen == InitOpen /\ [][NextOpen]_vars

(***************************************************************************)
(* Properties.                                                             *)
(***************************************************************************)
Prefix(p, k) == SubSeq(p, 1, k)

\* f ran to its end on the worker (it returned, whoever was listening).
Ran(job) == job.st \in {"sent", "discarded"}

\* The worker is done with the job.
Settled(job) == job.st \notin {"queued", "running"}

\* C1: when the unit of work ran to completion and its std::fs call returned
\* the error E, the future resolves with that same error E, kind and message
\* unchanged.
C1_PassThrough ==
    \A j \in JobIds :
        (jobs[j].fut = "resolved" /\ jobs[j].st = "sent" /\ jobs[j].res.tag = "err")
            => jobs[j].out = Err(jobs[j].res.err)

\* C2: no operation failure ever resolves with an error equal to the
\* offload-unavailable error blocking_err().
C2_Distinguishable ==
    \A j \in JobIds :
        (jobs[j].fut = "resolved" /\ jobs[j].st = "sent" /\ jobs[j].res.tag = "err")
            => jobs[j].out.err # blocking_err

\* C3: when the pool fails to execute the unit of work (f unwinds, the
\* channel is cancelled), the future resolves with an error that carries the
\* description of that pool failure.
C3_CarriesDescription ==
    \A j \in JobIds :
        (jobs[j].fut = "resolved" /\ jobs[j].st = "panicked")
            => /\ jobs[j].out.tag = "err"
               /\ jobs[j].out.err.msg = Describe(BlockingErrorOf(jobs[j]))

\* C4: for a path P that does not exist and whose parent is a directory,
\* once the future of create_dir(P) has resolved it has resolved
\* successfully and P is a directory.
C4_CreateDir ==
    \A j \in JobIds :
        LET job == jobs[j]
            P   == job.path
        IN (/\ job.op = "create_dir"
            /\ job.fut = "resolved"
            /\ ~Exists(job.sub, P)
            /\ IsDir(job.sub, Parent(P)))
           => /\ job.out = Ok("unit")
              /\ IsDir(job.post, P)
              /\ (j = Len(jobs) => IsDir(fs, P))

C4_Witness ==
    \E j \in JobIds :
        /\ j = Len(jobs)
        /\ jobs[j].op = "create_dir"
        /\ jobs[j].fut = "resolved"
        /\ Len(jobs[j].path) = 2
        /\ ~Exists(jobs[j].sub, jobs[j].path)
        /\ IsDir(jobs[j].sub, Parent(jobs[j].path))
        /\ IsDir(fs, jobs[j].path)

\* The components of p below the directory Prefix(p, k) do not exist in f.
FreshBelow(f, p, k) ==
    /\ IsDir(f, Prefix(p, k))
    /\ \A m \in (k + 1)..Len(p) : ~Exists(f, Prefix(p, m))

\* C5: for a nested path none of whose components below an existing base
\* directory exist, the future of create_dir_all resolves successfully and
\* every component is a directory afterwards; create_dir_all on a path that
\* is already a directory succeeds too (and changes nothing).
C5_CreateDirAll ==
    \A j \in JobIds :
        LET job == jobs[j]
            P   == job.path
        IN (job.op = "create_dir_all" /\ job.fut = "resolved")
           => /\ (\E k \in 0..(Len(P) - 1) : FreshBelow(job.sub, P, k))
                    => /\ job.out = Ok("unit")
                       /\ \A m \in 1..Len(P) :
                             /\ IsDir(job.post, Prefix(P, m))
                             /\ (j = Len(jobs) => IsDir(fs, Prefix(P, m)))
              /\ IsDir(job.sub, P)
                    => /\ job.out = Ok("unit")
                       /\ job.post = job.sub

C5_Witness ==
    /\ Len(jobs) = 2
    /\ \A j \in {1, 2} :
          /\ jobs[j].op = "create_dir_all"
          /\ jobs[j].path = <<"a", "b", "c">>
          /\ jobs[j].fut = "resolved"
          /\ jobs[j].out = Ok("unit")
    /\ FreshBelow(jobs[1].sub, <<"a", "b", "c">>, 0)
    /\ IsDir(jobs[2].sub, <<"a", "b", "c">>)

\* C6: for an existing empty directory D, the future of remove_dir(D)
\* resolves successfully, D does not exist afterwards and every other path
\* is as it was.
C6_RemoveDir ==
    \A j \in JobIds :
        LET job == jobs[j]
            D   == job.path
        IN (/\ job.op = "remove_dir"
            /\ job.fut = "resolved"
            /\ IsDir(job.sub, D)
            /\ ~HasEntries(job.sub, D))
           => /\ job.out = Ok("unit")
              /\ ~Exists(job.post, D)
              /\ \A q \in Paths \ {D} : job.post[q] = job.sub[q]
              /\ (j = Len(jobs) => fs = job.post)

C6_Witness ==
    \E j \in JobIds :
        /\ j = Len(jobs)
        /\ jobs[j].op = "remove_dir"
        /\ jobs[j].fut = "resolved"
        /\ jobs[j].path = <<"a">>
        /\ IsDir(jobs[j].sub, <<"a">>)
        /\ jobs[j].sub[<<"d">>] = "dir"
        /\ ~Exists(fs, <<"a">>)
        /\ fs[<<"d">>] = "dir"

\* C7: two create_dir(P) issued for the same missing P (parent a directory)
\* whose closures both ran and whose futures both resolved: exactly one
\* resolved successfully, the other with an error of the AlreadyExists
\* kind, and P is a directory.
C7_OneWinner ==
    \A i, j \in JobIds :
        (/\ i # j
         /\ Len(jobs) = 2
         /\ jobs[i].op = "create_dir" /\ jobs[j].op = "create_dir"
         /\ jobs[i].path = jobs[j].path
         /\ ~Exists(jobs[i].sub, jobs[i].path) /\ ~Exists(jobs[j].sub, jobs[j].path)
         /\ IsDir(jobs[i].sub, Parent(jobs[i].path))
         /\ jobs[i].st = "sent" /\ jobs[j].st = "sent"
         /\ jobs[i].fut = "resolved" /\ jobs[j].fut = "resolved"
         /\ jobs[i].out.tag = "ok")
        => /\ jobs[j].out.tag = "err"
           /\ jobs[j].out.err.kind = "AlreadyExists"
           /\ IsDir(fs, jobs[i].path)

C10_Snapshot ==
    [][/\ Len(jobs') > Len(jobs) => opts' = opts
       /\ \A j \in 1..Len(jobs') :
             (jobs'[j].op = "open" /\ Ran(jobs'[j]))
                => jobs'[j].used = jobs'[j].call]_vars

C10_Witness ==
    \E j \in JobIds :
        /\ jobs[j].op = "open"
        /\ jobs[j].st = "sent"
        /\ jobs[j].moved
        /\ jobs[j].call["create"]
        /\ jobs[j].used = jobs[j].call
        /\ jobs[j].res.tag = "ok"

====
